---- MODULE Spec2Model ----
(***************************************************************************)
(* Mini Cactpot Calculator: the EV engine and board analyzer of the game   *)
(* logic module (gilValue, calculateOptionEV, calculateBestOptions,        *)
(* calculateCellEV, getPositionPriority, findBestCellsToReveal) and the    *)
(* page that calls it (UIManager).                                         *)
(*                                                                         *)
(* JavaScript numbers are modelled as exact rationals <<num, den>> with    *)
(* den > 0, not necessarily in lowest terms and compared by NumEq and      *)
(* NumLess; NaN (the result of 0 / 0) is <<0, 0>>.                         *)
(* Every EV of the engine is a sum of payouts divided by a product of at   *)
(* most three list lengths, so the exact value is a multiple of            *)
(* 1/(n(n-1)(n-2)) with n <= 9: two EVs are either equal or differ by at   *)
(* least 1/504, far above the rounding error of IEEE doubles.              *)
(***************************************************************************)
EXTENDS Integers, Sequences, FiniteSets, TLC

\* JavaScript null (an unrevealed cell); revealed cells hold integers.
Null == -1

-----------------------------------------------------------------------------
(* Numbers *)

RECURSIVE GCD(_, _)
GCD(a, b) == IF b = 0 THEN a ELSE GCD(b, a % b)

Abs(x) == IF x < 0 THEN -x ELSE x

NaN == <<0, 0>>

IsNaN(x) == x[2] = 0

\* n / d, d > 0, in lowest terms
Rat(n, d) == LET g == GCD(Abs(n), d) IN <<n \div g, d \div g>>

Num(n) == <<n, 1>>

LCM(a, b) == (a \div GCD(a, b)) * b

\* a + b
NumAdd(a, b) ==
  IF IsNaN(a) \/ IsNaN(b) THEN NaN
  ELSE IF a[2] = b[2] THEN <<a[1] + b[1], a[2]>>
  ELSE LET l == LCM(a[2], b[2])
       IN <<a[1] * (l \div a[2]) + b[1] * (l \div b[2]), l>>

\* variant: the operands are swapped (b - a)
NumSubReversed(a, b) == IF IsNaN(a) THEN NaN ELSE NumAdd(b, <<-a[1], a[2]>>)

\* a - b
NumSub(a, b) == IF IsNaN(b) THEN NaN ELSE NumAdd(a, <<-b[1], b[2]>>)

\* a / c for an integer count c >= 0; the engine only divides the zero
\* total of an empty loop by zero, which is NaN
NumDiv(a, c) == IF IsNaN(a) \/ c = 0 THEN NaN ELSE <<a[1], a[2] * c>>

\* a < b (false when either is NaN)
NumLess(a, b) ==
  IF IsNaN(a) \/ IsNaN(b) THEN FALSE
  ELSE LET l == LCM(a[2], b[2])
       IN a[1] * (l \div a[2]) < b[1] * (l \div b[2])

\* a === b (false when either is NaN)
NumEq(a, b) ==
  IF IsNaN(a) \/ IsNaN(b) THEN FALSE
  ELSE LET l == LCM(a[2], b[2])
       IN a[1] * (l \div a[2]) = b[1] * (l \div b[2])

\* Math.abs
MathAbs(a) == <<Abs(a[1]), a[2]>>

\* Math.max(...xs) of a non-empty list: NaN when any element is NaN
RECURSIVE MathMaxFrom(_, _, _)
MathMaxFrom(xs, i, m) ==
  IF i > Len(xs) THEN m
  ELSE IF IsNaN(xs[i]) \/ IsNaN(m) THEN NaN
  ELSE MathMaxFrom(xs, i + 1, IF NumLess(m, xs[i]) THEN xs[i] ELSE m)

\* variant: the first element instead of the greatest
MathMaxKeepsFirst(xs) == xs[1]

\* variant: the maximum is searched from 0 upwards (let max = 0; ...)
MathMaxOrZero(xs) == MathMaxFrom(xs, 1, Num(0))

MathMax(xs) == MathMaxFrom(xs, 2, xs[1])

-----------------------------------------------------------------------------
(* Payout table *)

valueToGil ==
  [t \in 6..24 |->
     CASE t = 6 -> 10000 [] t = 7 -> 36 [] t = 8 -> 720 [] t = 9 -> 360
       [] t = 10 -> 80 [] t = 11 -> 252 [] t = 12 -> 108 [] t = 13 -> 72
       [] t = 14 -> 54 [] t = 15 -> 180 [] t = 16 -> 72 [] t = 17 -> 180
       [] t = 18 -> 119 [] t = 19 -> 36 [] t = 20 -> 306 [] t = 21 -> 1080
       [] t = 22 -> 144 [] t = 23 -> 1800 [] t = 24 -> 3600]

\* variant: the last table entry is missing
gilValueShortTable(total) ==
  IF total \in 6..23 THEN valueToGil[total] ELSE 0

\* valueToGil[total] || 0
gilValue(total) ==
  IF total \in DOMAIN valueToGil THEN valueToGil[total] ELSE 0

-----------------------------------------------------------------------------
(* EV engine *)

\* variant: the reduction stops before the last element
RECURSIVE reduceSumShort(_, _, _)
reduceSumShort(xs, i, sum) ==
  IF i >= Len(xs) THEN sum ELSE reduceSumShort(xs, i + 1, sum + xs[i])

\* variant: the sum leaves out the first slot
RECURSIVE reduceSumSkipsFirst(_, _, _)
reduceSumSkipsFirst(xs, i, sum) ==
  IF i > Len(xs) THEN sum
  ELSE reduceSumSkipsFirst(xs, i + 1, IF i = 1 THEN sum ELSE sum + xs[i])

\* optionValues.reduce((sum, val) => sum + val, 0)
RECURSIVE reduceSum(_, _, _)
reduceSum(xs, i, sum) ==
  IF i > Len(xs) THEN sum ELSE reduceSum(xs, i + 1, sum + xs[i])

\* variant: the last occurrence is found (xs.lastIndexOf(x))
RECURSIVE lastIndexOfFrom(_, _, _)
lastIndexOfFrom(xs, x, i) == IF xs[i] = x THEN i ELSE lastIndexOfFrom(xs, x, i - 1)

lastIndexOf(xs, x) == lastIndexOfFrom(xs, x, Len(xs))

\* xs.indexOf(x), 1-based; the caller guarantees x occurs
RECURSIVE indexOfFrom(_, _, _)
indexOfFrom(xs, x, i) == IF xs[i] = x THEN i ELSE indexOfFrom(xs, x, i + 1)

indexOf(xs, x) == indexOfFrom(xs, x, 1)

\* variant: the tried digit stays available
removeIndexKeeps(xs, i) == xs

\* variant: the filter compares the entries with i, not their indexes
\* (availableNumbers.filter(n => n !== i))
removeIndexByValue(xs, i) == SelectSeq(xs, LAMBDA n : n # i - 1)

\* xs.filter((_, index) => index !== i)
removeIndex(xs, i) == SubSeq(xs, 1, i - 1) \o SubSeq(xs, i + 1, Len(xs))

\* the accumulation of the for loop of calculateOptionEV over the EVs
\* evs[i] of the recursive calls, from index i on, with the accumulators
\* evTotal and combinationCount; returns evTotal / combinationCount
RECURSIVE optionEVLoop(_, _, _, _)
optionEVLoop(evs, i, evTotal, combinationCount) ==
  IF IsNaN(evTotal) THEN NaN  \* NaN absorbs every later += and the division
  ELSE IF i > Len(evs) THEN NumDiv(evTotal, combinationCount)
  ELSE optionEVLoop(evs, i + 1, NumAdd(evTotal, evs[i]), combinationCount + 1)

RECURSIVE calculateOptionEV(_, _)
calculateOptionEV(optionValues, availableNumbers) ==
  LET nullCount == Len(SelectSeq(optionValues, LAMBDA item : item = Null))
  IN IF nullCount = 0
     THEN Num(gilValue(reduceSum(optionValues, 1, 0)))
     ELSE LET nullIndex == indexOf(optionValues, Null)
              \* ev of iteration i: the recursive call on newOptionValues
              \* and newAvailableNumbers
              evs == SubSeq([i \in 1..Len(availableNumbers) |->
                               calculateOptionEV(
                                 [optionValues EXCEPT ![nullIndex] = availableNumbers[i]],
                                 removeIndex(availableNumbers, i))],
                            1, Len(availableNumbers))
          IN optionEVLoop(evs, 1, Num(0), 0)

\* the completed lines on which calculateOptionEV(optionValues,
\* availableNumbers) evaluates gilValue, in the order the recursion reaches
\* them; triedFrom is the for loop from index i on
RECURSIVE triedLines(_, _)
RECURSIVE triedFrom(_, _, _, _)
triedFrom(optionValues, availableNumbers, nullIndex, i) ==
  IF i > Len(availableNumbers) THEN <<>>
  ELSE triedLines(<<IF nullIndex = 1 THEN availableNumbers[i] ELSE optionValues[1],
                    IF nullIndex = 2 THEN availableNumbers[i] ELSE optionValues[2],
                    IF nullIndex = 3 THEN availableNumbers[i] ELSE optionValues[3]>>,
                  removeIndex(availableNumbers, i))
       \o triedFrom(optionValues, availableNumbers, nullIndex, i + 1)

triedLines(optionValues, availableNumbers) ==
  IF Len(SelectSeq(optionValues, LAMBDA item : item = Null)) = 0
  THEN <<optionValues>>
  ELSE triedFrom(optionValues, availableNumbers, indexOf(optionValues, Null), 1)

\* variant: newOptionValues is optionValues itself, not a copy
writeToAlias(optionValues, nullIndex, number) ==
  [optionValues EXCEPT ![nullIndex] = number]

\* optionValues after  newOptionValues = [...optionValues];
\* newOptionValues[nullIndex] = number : the write goes to the new array
writeToCopy(optionValues, nullIndex, number) == optionValues

\* the contents of the two argument arrays after the iterations from i on;
\* availableNumbers.filter builds a new array and the recursive call receives
\* the two new arrays only
RECURSIVE argsAfterLoop(_, _, _, _)
argsAfterLoop(optionValues, availableNumbers, nullIndex, i) ==
  IF i > Len(availableNumbers) THEN <<optionValues, availableNumbers>>
  ELSE argsAfterLoop(writeToCopy(optionValues, nullIndex, availableNumbers[i]),
                     availableNumbers, nullIndex, i + 1)

\* the contents of the argument arrays when calculateOptionEV returns
argsAfterCall(optionValues, availableNumbers) ==
  IF Len(SelectSeq(optionValues, LAMBDA item : item = Null)) = 0
  THEN <<optionValues, availableNumbers>>
  ELSE argsAfterLoop(optionValues, availableNumbers, indexOf(optionValues, Null), 1)

-----------------------------------------------------------------------------
(* Line geometry *)

Positions == 0..8

options ==
  [l \in 0..7 |->
     CASE l = 0 -> <<0, 1, 2>>   \* row 1
       [] l = 1 -> <<3, 4, 5>>   \* row 2
       [] l = 2 -> <<6, 7, 8>>   \* row 3
       [] l = 3 -> <<0, 3, 6>>   \* col 1
       [] l = 4 -> <<1, 4, 7>>   \* col 2
       [] l = 5 -> <<2, 5, 8>>   \* col 3
       [] l = 6 -> <<0, 4, 8>>   \* diag top-left
       [] l = 7 -> <<2, 4, 6>>]  \* diag top-right

\* variant: cell 6 lists the top-left diagonal instead of the top-right one
cellLinesTypo ==
  [p \in Positions |->
     CASE p = 0 -> <<0, 3, 6>>
       [] p = 1 -> <<0, 4>>
       [] p = 2 -> <<0, 5, 7>>
       [] p = 3 -> <<1, 3>>
       [] p = 4 -> <<1, 4, 6, 7>>
       [] p = 5 -> <<1, 5>>
       [] p = 6 -> <<2, 3, 6>>
       [] p = 7 -> <<2, 4>>
       [] p = 8 -> <<2, 5, 6>>]

\* variant: the center lacks the top-right diagonal
cellLinesCenterThree ==
  [p \in Positions |->
     CASE p = 0 -> <<0, 3, 6>>
       [] p = 1 -> <<0, 4>>
       [] p = 2 -> <<0, 5, 7>>
       [] p = 3 -> <<1, 3>>
       [] p = 4 -> <<1, 4, 6>>
       [] p = 5 -> <<1, 5>>
       [] p = 6 -> <<2, 3, 7>>
       [] p = 7 -> <<2, 4>>
       [] p = 8 -> <<2, 5, 6>>]

cellLines ==
  [p \in Positions |->
     CASE p = 0 -> <<0, 3, 6>>
       [] p = 1 -> <<0, 4>>
       [] p = 2 -> <<0, 5, 7>>
       [] p = 3 -> <<1, 3>>
       [] p = 4 -> <<1, 4, 6, 7>>
       [] p = 5 -> <<1, 5>>
       [] p = 6 -> <<2, 3, 7>>
       [] p = 7 -> <<2, 4>>
       [] p = 8 -> <<2, 5, 6>>]

\* variant: the list ends at 8
allNumbersShort == <<1, 2, 3, 4, 5, 6, 7, 8>>

allNumbers == <<1, 2, 3, 4, 5, 6, 7, 8, 9>>

-----------------------------------------------------------------------------
(* Board analyzer; a board is a function on Positions *)

\* board.filter(element => element !== null), in board order
RECURSIVE takenNumbersFrom(_, _)
takenNumbersFrom(board, i) ==
  IF i > 8 THEN <<>>
  ELSE (IF board[i] # Null THEN <<board[i]>> ELSE <<>>)
         \o takenNumbersFrom(board, i + 1)

takenNumbersOf(board) == takenNumbersFrom(board, 0)

\* xs.includes(x)
includes(xs, x) == \E i \in 1..Len(xs) : xs[i] = x

\* allNumbers.filter(item => !takenNumbers.includes(item))
availableNumbersOf(board) ==
  LET takenNumbers == takenNumbersOf(board)
  IN SelectSeq(allNumbers, LAMBDA item : ~includes(takenNumbers, item))

\* variant: the third slot reads the second position again
lineValuesRepeat(board, line) == <<board[line[1]], board[line[2]], board[line[2]]>>

\* line.map(i => board[i])
lineValues(board, line) == <<board[line[1]], board[line[2]], board[line[3]]>>

\* options.map(line => line.map(i => board[i]))
\*        .map(option => calculateOptionEV(option, availableNumbers)):
\* the EV of line l is element l + 1
lineEVsWith(board, availableNumbers) ==
  <<calculateOptionEV(lineValues(board, options[0]), availableNumbers),
    calculateOptionEV(lineValues(board, options[1]), availableNumbers),
    calculateOptionEV(lineValues(board, options[2]), availableNumbers),
    calculateOptionEV(lineValues(board, options[3]), availableNumbers),
    calculateOptionEV(lineValues(board, options[4]), availableNumbers),
    calculateOptionEV(lineValues(board, options[5]), availableNumbers),
    calculateOptionEV(lineValues(board, options[6]), availableNumbers),
    calculateOptionEV(lineValues(board, options[7]), availableNumbers)>>

lineEVsOf(board) == lineEVsWith(board, availableNumbersOf(board))

\* variant: find instead of filter, only the first best line is kept
RECURSIVE bestOptionsFirst(_, _, _)
bestOptionsFirst(evs, maxEV, index) ==
  IF index > 7 THEN <<>>
  ELSE IF NumEq(evs[index + 1], maxEV) THEN <<options[index]>>
  ELSE bestOptionsFirst(evs, maxEV, index + 1)

\* evs.map(...).filter(item => item.ev === maxEV).map(item => options[item.index])
RECURSIVE bestOptionsFrom(_, _, _)
bestOptionsFrom(evs, maxEV, index) ==
  IF index > 7 THEN <<>>
  ELSE (IF NumEq(evs[index + 1], maxEV) THEN <<options[index]>> ELSE <<>>)
         \o bestOptionsFrom(evs, maxEV, index + 1)

calculateBestOptions(board) ==
  LET evs == lineEVsOf(board)
      maxEV == MathMax(evs)
  IN [bestOptions |-> bestOptionsFrom(evs, maxEV, 0), maxEV |-> maxEV]

\* the loop summing lineEVs over linesForThisCell
RECURSIVE cellScoreFrom(_, _, _, _)
cellScoreFrom(lineEVs, linesForThisCell, k, cellScore) ==
  IF IsNaN(cellScore) THEN NaN  \* NaN absorbs every later +=
  ELSE IF k > Len(linesForThisCell) THEN cellScore
  ELSE cellScoreFrom(lineEVs, linesForThisCell, k + 1,
                     NumAdd(cellScore, lineEVs[linesForThisCell[k] + 1]))

calculateCellEV(board, cellIndex) ==
  IF board[cellIndex] # Null THEN Num(0)
  ELSE LET baseline == calculateBestOptions(board).maxEV
           lineEVs == lineEVsOf(board)
           cellScore == cellScoreFrom(lineEVs, cellLines[cellIndex], 1, Num(0))
       IN NumSub(cellScore, baseline)

\* variant: the corner list lacks position 8
getPositionPriorityThreeCorners(cellIndex) ==
  IF cellIndex = 4 THEN 4
  ELSE IF cellIndex \in {0, 2, 6} THEN 3
  ELSE IF cellIndex \in {1, 3, 5, 7} THEN 2
  ELSE 1

getPositionPriority(cellIndex) ==
  IF cellIndex = 4 THEN 4
  ELSE IF cellIndex \in {0, 2, 6, 8} THEN 3
  ELSE IF cellIndex \in {1, 3, 5, 7} THEN 2
  ELSE 1

\* one iteration of the loop over the cells: { index: i, ev } if cell i is
\* empty
cellEntry(board, i) ==
  IF board[i] = Null
  THEN <<[index |-> i, ev |-> calculateCellEV(board, i)]>>
  ELSE <<>>

\* variant: the loop stops one cell early (i < 8)
cellEVsShort(board) ==
  cellEntry(board, 0) \o cellEntry(board, 1) \o cellEntry(board, 2)
    \o cellEntry(board, 3) \o cellEntry(board, 4) \o cellEntry(board, 5)
    \o cellEntry(board, 6) \o cellEntry(board, 7)

\* the loop for (i = 0; i < 9; i++) collecting the entries of the empty cells
cellEVsOf(board) ==
  cellEntry(board, 0) \o cellEntry(board, 1) \o cellEntry(board, 2)
    \o cellEntry(board, 3) \o cellEntry(board, 4) \o cellEntry(board, 5)
    \o cellEntry(board, 6) \o cellEntry(board, 7) \o cellEntry(board, 8)

\* variant: ascending priority
comparePriorityAscending(a, b) ==
  getPositionPriority(a.index) - getPositionPriority(b.index)

\* the comparator of the sort: negative keeps a before b
comparePriority(a, b) == getPositionPriority(b.index) - getPositionPriority(a.index)

\* Array.prototype.sort, which is stable: insert x after every element that
\* does not compare greater than x
RECURSIVE insertSorted(_, _)
insertSorted(sorted, x) ==
  IF sorted = <<>> THEN <<x>>
  ELSE LET last == sorted[Len(sorted)]
       IN IF comparePriority(last, x) > 0
          THEN Append(insertSorted(SubSeq(sorted, 1, Len(sorted) - 1), x), last)
          ELSE Append(sorted, x)

RECURSIVE sortFrom(_, _, _)
sortFrom(xs, i, sorted) ==
  IF i > Len(xs) THEN sorted
  ELSE sortFrom(xs, i + 1, insertSorted(sorted, xs[i]))

sortByPriority(xs) == sortFrom(xs, 1, <<>>)

\* cellEVs.map(cell => cell.ev)
RECURSIVE mapEv(_)
mapEv(cells) ==
  IF cells = <<>> THEN <<>> ELSE <<Head(cells).ev>> \o mapEv(Tail(cells))

\* cells.map(cell => cell.index)
RECURSIVE mapIndex(_)
mapIndex(cells) ==
  IF cells = <<>> THEN <<>> ELSE <<Head(cells).index>> \o mapIndex(Tail(cells))

\* 0.01
epsilon == <<1, 100>>

\* variant: Math.abs is missing
withinEpsilonSigned(ev, maxEV) == NumLess(NumSub(ev, maxEV), epsilon)

\* Math.abs(cell.ev - maxEV) < epsilon
withinEpsilon(ev, maxEV) == NumLess(MathAbs(NumSub(ev, maxEV)), epsilon)

\* cellEVs.filter(cell => Math.abs(cell.ev - maxEV) < epsilon)
filterTied(cellEVs, maxEV) ==
  SelectSeq(cellEVs, LAMBDA cell : withinEpsilon(cell.ev, maxEV))

-----------------------------------------------------------------------------
(* User interface (src/uiManager.js). The text of an input field is a      *)
(* sequence of one-character strings; the texts the page displays are       *)
(* strings.                                                                 *)

minimumInputs == 4
maxInputs == 4

DigitChars == <<"0", "1", "2", "3", "4", "5", "6", "7", "8", "9">>

isDigit(c) == \E k \in 1..10 : DigitChars[k] = c

digitOf(c) == (CHOOSE k \in 1..10 : DigitChars[k] = c) - 1

\* value.trim(): the white space at both ends is removed
RECURSIVE trimStart(_)
trimStart(value) ==
  IF value # <<>> /\ Head(value) = " " THEN trimStart(Tail(value)) ELSE value

RECURSIVE trimEnd(_)
trimEnd(value) ==
  IF value # <<>> /\ value[Len(value)] = " "
  THEN trimEnd(SubSeq(value, 1, Len(value) - 1))
  ELSE value

trim(value) == trimEnd(trimStart(value))

\* the result of parseInt on a text that does not start with a digit
NotANumber == -2

\* the number the digits of value from position i on continue acc to
RECURSIVE parseDigits(_, _, _)
parseDigits(value, i, acc) ==
  IF i > Len(value) \/ ~isDigit(value[i]) THEN acc
  ELSE parseDigits(value, i + 1, 10 * acc + digitOf(value[i]))

\* parseInt(value, 10) of a text without sign: leading white space is
\* skipped and the longest prefix of digits is read
parseInt(value) ==
  LET text == trimStart(value)
  IN IF text = <<>> \/ ~isDigit(text[1]) THEN NotANumber
     ELSE parseDigits(text, 1, 0)

\* n.toString() of an integer n >= 0, as a field text
RECURSIVE numberToString(_)
numberToString(n) ==
  IF n < 10 THEN <<DigitChars[n + 1]>>
  ELSE numberToString(n \div 10) \o <<DigitChars[(n % 10) + 1]>>

\* the text validateInput leaves in the field whose text is value
validateInput(value) ==
  LET digits == SelectSeq(value, isDigit)  \* value.replace(/[^0-9]/g, '')
  IN IF digits = <<>> THEN <<>>
     ELSE LET numValue == parseInt(digits)
          IN IF numValue < 1 \/ numValue > 9
             THEN LET lastChar == <<digits[Len(digits)]>>
                      lastDigit == parseInt(lastChar)
                  IN IF lastDigit >= 1 /\ lastDigit <= 9
                     THEN numberToString(lastDigit)
                     ELSE <<>>
             ELSE numberToString(numValue)

\* the number of fields whose trimmed text is not empty
filledCountOf(inputs) == Cardinality({p \in Positions : trim(inputs[p]) # <<>>})

\* variant: the empty fields are disabled only above maxInputs
manageInputStatesAbove(inputs, disabled) ==
  IF filledCountOf(inputs) > maxInputs
  THEN [p \in Positions |-> IF trim(inputs[p]) = <<>> THEN TRUE ELSE disabled[p]]
  ELSE [p \in Positions |-> FALSE]

\* the disabled flags manageInputStates leaves
manageInputStates(inputs, disabled) ==
  IF filledCountOf(inputs) >= maxInputs
  THEN [p \in Positions |-> IF trim(inputs[p]) = <<>> THEN TRUE ELSE disabled[p]]
  ELSE [p \in Positions |-> FALSE]

\* filledValues of checkNumberInputs from field i on
RECURSIVE filledValuesFrom(_, _)
filledValuesFrom(inputs, i) ==
  IF i > 8 THEN <<>>
  ELSE (IF trim(inputs[i]) # <<>> THEN <<parseInt(inputs[i])>> ELSE <<>>)
         \o filledValuesFrom(inputs, i + 1)

filledValuesOf(inputs) == filledValuesFrom(inputs, 0)

\* variant: a value counts as a duplicate from its third occurrence on
RECURSIVE findDuplicatesThird(_, _, _, _)
findDuplicatesThird(values, i, seen, duplicates) ==
  IF i > Len(values) THEN duplicates
  ELSE IF values[i] \in seen /\ Cardinality({k \in 1..(i - 1) : values[k] = values[i]}) >= 2
       THEN findDuplicatesThird(values, i + 1, seen,
                                IF includes(duplicates, values[i]) THEN duplicates
                                ELSE Append(duplicates, values[i]))
       ELSE findDuplicatesThird(values, i + 1, seen \cup {values[i]}, duplicates)

\* findDuplicates: the loop over values from index i on with the sets seen
\* and duplicates (a Set keeps its elements in insertion order)
RECURSIVE findDuplicates(_, _, _, _)
findDuplicates(values, i, seen, duplicates) ==
  IF i > Len(values) THEN duplicates
  ELSE IF values[i] \in seen
       THEN findDuplicates(values, i + 1, seen,
                           IF includes(duplicates, values[i]) THEN duplicates
                           ELSE Append(duplicates, values[i]))
       ELSE findDuplicates(values, i + 1, seen \cup {values[i]}, duplicates)

\* strings.join(', ') from index i on
RECURSIVE joinFrom(_, _)
joinFrom(strings, i) ==
  IF i > Len(strings) THEN ""
  ELSE IF i = Len(strings) THEN strings[i]
  ELSE strings[i] \o ", " \o joinFrom(strings, i + 1)

join(strings) == joinFrom(strings, 1)

\* `Duplicate numbers: ${duplicates.join(', ')}<br>Please remove duplicates.`
duplicateMessage(duplicates) ==
  "Duplicate numbers: " \o join([k \in 1..Len(duplicates) |-> ToString(duplicates[k])])
    \o "<br>Please remove duplicates."

\* getBoardState: null for an empty field, parseInt of its text otherwise
getBoardState(inputs) ==
  [p \in Positions |-> IF inputs[p] = <<>> THEN Null ELSE parseInt(inputs[p])]

\* the optionNames calculateBestOptions returns with every result
optionNames ==
  <<"Row 1", "Row 2", "Row 3", "Column 1", "Column 2", "Column 3",
    "Diagonal (Top-Left)", "Diagonal (Top-Right)">>

\* findIndex of option in the table of lines of formatBestOptions
RECURSIVE findIndexFrom(_, _)
findIndexFrom(option, l) ==
  IF l > 7 THEN -1
  ELSE IF options[l][1] = option[1] /\ options[l][2] = option[2] /\ options[l][3] = option[3]
       THEN l
       ELSE findIndexFrom(option, l + 1)

\* variant: the name of the line after the one found
nameOfNext(option) == optionNames[((findIndexFrom(option, 0) + 1) % 8) + 1]

\* optionNames[optionIndex]; undefined, joined as the empty text, when the
\* option is not in the table
nameOf(option) ==
  LET optionIndex == findIndexFrom(option, 0)
  IN IF optionIndex = -1 THEN "" ELSE optionNames[optionIndex + 1]

formatBestOptions(bestOptions) ==
  IF Len(bestOptions) = 0 THEN "No valid options"
  ELSE join([k \in 1..Len(bestOptions) |-> nameOf(bestOptions[k])])

\* x.toFixed(0): the nearest integer, the one further from zero on a tie
toFixed0(x) ==
  IF IsNaN(x) THEN "NaN"
  ELSE IF x[1] < 0 THEN "-" \o ToString((2 * (0 - x[1]) + x[2]) \div (2 * x[2]))
  ELSE ToString((2 * x[1] + x[2]) \div (2 * x[2]))

-----------------------------------------------------------------------------
(* The engine is a set of pure functions: each specification below draws   *)
(* the arguments of one call in its initial state and applies the function *)
(* in its single step. The last specification is the page, whose events    *)
(* call calculateBestOptions.                                              *)

VARIABLES
  total,             \* argument of gilValue
  optionValues,      \* arguments of calculateOptionEV
  availableNumbers,
  board,             \* argument of the board analyzer functions
  cellIndex,         \* second argument of calculateCellEV
  pc,                \* the call about to be made or just made; on the page,
                     \* what the last event did
  ret,               \* the value the call returned
  cellLog,           \* the cells findBestCellsToReveal logged an EV for
  inputs,            \* the texts of the 9 input fields
  disabled,          \* the disabled flag (and class) of each field
  filled,            \* the class 'filled' of each field
  bestOptionsDiv,    \* the texts the page displays
  expectedValueText,
  mgpImage,          \* style.display of the MGP image
  errorTextDiv,
  stack,             \* the frames of the calls of calculateOptionEV in progress
  gilCalls           \* the number of evaluations of gilValue so far

stackVars == <<stack, gilCalls>>

uiVars ==
  <<inputs, disabled, filled, bestOptionsDiv, expectedValueText, mgpImage, errorTextDiv>>

vars ==
  <<total, optionValues, availableNumbers, board, cellIndex, pc, ret, cellLog,
    inputs, disabled, filled, bestOptionsDiv, expectedValueText, mgpImage, errorTextDiv,
    stack, gilCalls>>

\* no call of calculateOptionEV is traced
NoCall ==
  /\ stack = <<>>
  /\ gilCalls = 0

\* the page before any event: empty enabled fields, nothing displayed
PageLoaded ==
  /\ inputs = [p \in Positions |-> <<>>]
  /\ disabled = [p \in Positions |-> FALSE]
  /\ filled = [p \in Positions |-> FALSE]
  /\ bestOptionsDiv = ""
  /\ expectedValueText = ""
  /\ mgpImage = "none"
  /\ errorTextDiv = ""

EmptyBoard == [p \in Positions |-> Null]

NoLine == <<Null, Null, Null>>

\* Bounds of the sampled arguments
MaxTotal == 60
MaxSlotDigit == 4
MaxAvailDigit == 6
MaxRevealPos == 4      \* revealed cells lie at positions 0..MaxRevealPos
MaxLinePos == 6        \* the same for the boards given to calculateBestOptions
MaxRevealed == 4       \* at most this many cells are revealed
MaxRevealDigit == 4    \* revealed digits are in 1..MaxRevealDigit
BadValue == 30         \* a cell value outside 1..9
MaxBadCells == 1       \* at most this many cells hold BadValue

\* the ascending list of a set of integers
RECURSIVE SortedSeq(_)
SortedSeq(S) ==
  IF S = {} THEN <<>>
  ELSE LET m == CHOOSE x \in S : \A y \in S : x <= y
       IN <<m>> \o SortedSeq(S \ {m})

-----------------------------------------------------------------------------
(* gilValue *)

InitPayout ==
  /\ total \in (0 - MaxTotal)..MaxTotal
  /\ optionValues = NoLine
  /\ availableNumbers = <<>>
  /\ board = EmptyBoard
  /\ cellIndex = 0
  /\ pc = "ready"
  /\ ret = 0
  /\ cellLog = <<>>
  /\ PageLoaded
  /\ NoCall

CallGilValue ==
  /\ pc = "ready"
  /\ ret' = gilValue(total)
  /\ pc' = "done"
  /\ UNCHANGED <<total, optionValues, availableNumbers, board, cellIndex, cellLog>>
  /\ UNCHANGED uiVars
  /\ UNCHANGED stackVars

SpecPayout == InitPayout /\ [][CallGilValue]_vars

-----------------------------------------------------------------------------
(* calculateOptionEV *)

\* lines of three slots, each unrevealed or a digit, and lists of distinct
\* available digits
InitOptionEV ==
  /\ total = 0
  /\ optionValues \in [1..3 -> {Null} \cup 1..MaxSlotDigit]
  /\ availableNumbers \in {SortedSeq(S) : S \in SUBSET (1..MaxAvailDigit)}
  /\ board = EmptyBoard
  /\ cellIndex = 0
  /\ pc = "ready"
  /\ ret = 0
  /\ cellLog = <<>>
  /\ PageLoaded
  /\ NoCall

\* one call of calculateOptionEV on the two arrays, taking pc from from to to
OptionEVStep(from, to) ==
  /\ pc = from
  /\ ret' = calculateOptionEV(optionValues, availableNumbers)
  /\ \E args \in {argsAfterCall(optionValues, availableNumbers)} :
       /\ optionValues' = args[1]
       /\ availableNumbers' = args[2]
  /\ pc' = to
  /\ UNCHANGED <<total, board, cellIndex, cellLog>>
  /\ UNCHANGED uiVars
  /\ UNCHANGED stackVars

CallCalculateOptionEV == OptionEVStep("ready", "done")

SpecOptionEV == InitOptionEV /\ [][CallCalculateOptionEV]_vars

-----------------------------------------------------------------------------
(* calculateOptionEV on available digits in any order *)

MaxOrderSlot == 2
MaxOrderDigit == 4

\* the sequences of distinct elements of S
InjectiveSeqs(S) ==
  UNION {{s \in [1..n -> S] : \A i, j \in 1..n : i # j => s[i] # s[j]} :
         n \in 0..Cardinality(S)}

InitOrder ==
  /\ total = 0
  /\ optionValues \in [1..3 -> {Null} \cup 1..MaxOrderSlot]
  /\ availableNumbers \in InjectiveSeqs(1..MaxOrderDigit)
  /\ board = EmptyBoard
  /\ cellIndex = 0
  /\ pc = "ready"
  /\ ret = 0
  /\ cellLog = <<>>
  /\ PageLoaded
  /\ NoCall

CallOptionEVAnyOrder == OptionEVStep("ready", "done")

SpecOrder == InitOrder /\ [][CallOptionEVAnyOrder]_vars

-----------------------------------------------------------------------------
(* calculateOptionEV step by step: stack holds one frame per call in        *)
(* progress, the last frame being the call that runs. pc is "run" while the *)
(* running call is at its test of nullCount or at the head of its loop,     *)
(* "returned" when a recursive call has just returned ev in ret, and "done" *)
(* when the outermost call has returned. JavaScript runs the call to        *)
(* completion, so a step that is possible is taken.                         *)

MaxStackSlot == 1
MaxStackDigit == 4

\* the frame of a call that starts: i is the loop index (1-based)
newFrame(values, numbers) ==
  [optionValues |-> values, availableNumbers |-> numbers,
   i |-> 1, evTotal |-> Num(0), combinationCount |-> 0]

\* newOptionValues = [...optionValues]; newOptionValues[nullIndex] = number
fillSlot(values, nullIndex, number) ==
  <<IF nullIndex = 1 THEN number ELSE values[1],
    IF nullIndex = 2 THEN number ELSE values[2],
    IF nullIndex = 3 THEN number ELSE values[3]>>

\* optionValues.filter(item => item === null).length
nullCountOf(values) == Len(SelectSeq(values, LAMBDA item : item = Null))

InitStack ==
  /\ total = 0
  /\ optionValues \in [1..3 -> {Null} \cup 1..MaxStackSlot]
  /\ availableNumbers \in {SortedSeq(S) : S \in SUBSET (1..MaxStackDigit)}
  /\ board = EmptyBoard
  /\ cellIndex = 0
  /\ pc = "run"
  /\ ret = Num(0)
  /\ cellLog = <<>>
  /\ PageLoaded
  /\ stack = <<newFrame(optionValues, availableNumbers)>>
  /\ gilCalls = 0

\* the running call returns value to its caller
returnValue(value) ==
  /\ ret' = value
  /\ stack' = SubSeq(stack, 1, Len(stack) - 1)
  /\ pc' = IF Len(stack) = 1 THEN "done" ELSE "returned"

\* nullCount === 0: return gilValue(total)
ReturnGilValue ==
  /\ pc = "run"
  /\ \E top \in {stack[Len(stack)]} :
       /\ nullCountOf(top.optionValues) = 0
       /\ returnValue(Num(gilValue(reduceSum(top.optionValues, 1, 0))))
  /\ gilCalls' = gilCalls + 1
  /\ UNCHANGED <<total, optionValues, availableNumbers, board, cellIndex, cellLog>>
  /\ UNCHANGED uiVars

\* one iteration of the loop up to the recursive call
RecursiveCall ==
  /\ pc = "run"
  /\ \E top \in {stack[Len(stack)]} :
       /\ nullCountOf(top.optionValues) # 0
       /\ top.i <= Len(top.availableNumbers)
       /\ stack' = Append(stack,
                          newFrame(fillSlot(top.optionValues,
                                            indexOf(top.optionValues, Null),
                                            top.availableNumbers[top.i]),
                                   removeIndex(top.availableNumbers, top.i)))
  /\ UNCHANGED <<total, optionValues, availableNumbers, board, cellIndex, pc, ret, cellLog,
                 gilCalls>>
  /\ UNCHANGED uiVars

\* evTotal += ev; combinationCount++; i++
AccumulateEV ==
  /\ pc = "returned"
  /\ stack' = [stack EXCEPT ![Len(stack)] =
                 [@ EXCEPT !.evTotal = NumAdd(@, ret),
                           !.combinationCount = @ + 1,
                           !.i = @ + 1]]
  /\ pc' = "run"
  /\ UNCHANGED <<total, optionValues, availableNumbers, board, cellIndex, ret, cellLog,
                 gilCalls>>
  /\ UNCHANGED uiVars

\* the loop is over: return evTotal / combinationCount
ReturnAverage ==
  /\ pc = "run"
  /\ \E top \in {stack[Len(stack)]} :
       /\ nullCountOf(top.optionValues) # 0
       /\ top.i > Len(top.availableNumbers)
       /\ returnValue(NumDiv(top.evTotal, top.combinationCount))
  /\ UNCHANGED <<total, optionValues, availableNumbers, board, cellIndex, cellLog, gilCalls>>
  /\ UNCHANGED uiVars

NextStack ==
  \/ ReturnGilValue
  \/ RecursiveCall
  \/ AccumulateEV
  \/ ReturnAverage

SpecStack == InitStack /\ [][NextStack]_vars /\ WF_vars(NextStack)

-----------------------------------------------------------------------------
(* Sampled boards *)

\* the board with the cells of P revealed as f gives them
BoardOf(P, f) == [p \in Positions |-> IF p \in P THEN f[p] ELSE Null]

RevealSets(maxPos, max) ==
  {P \in SUBSET (0..maxPos) : Cardinality(P) <= max}

\* valid boards: distinct digits of 1..MaxRevealDigit
LineBoards ==
  UNION {{BoardOf(P, f) :
            f \in {g \in [P -> 1..MaxRevealDigit] :
                     \A p, q \in P : p # q => g[p] # g[q]}} :
         P \in RevealSets(MaxLinePos, MaxRevealed)}

\* valid boards whose k revealed cells hold the digits 1..k
DigitBoards ==
  UNION {{BoardOf(P, f) :
            f \in {g \in [P -> 1..Cardinality(P)] :
                     \A p, q \in P : p # q => g[p] # g[q]}} :
         P \in RevealSets(MaxRevealPos, MaxRevealed)}

\* malformed boards: some cells hold the out-of-range BadValue
BadBoards ==
  {BoardOf(P, [p \in P |-> BadValue]) : P \in RevealSets(MaxRevealPos, MaxBadCells) \ {{}}}

CellBoards == DigitBoards \cup BadBoards

-----------------------------------------------------------------------------
(* calculateBestOptions *)

InitLines ==
  /\ total = 0
  /\ optionValues = NoLine
  /\ availableNumbers = <<>>
  /\ board \in LineBoards
  /\ cellIndex = 0
  /\ pc = "ready"
  /\ ret = 0
  /\ cellLog = <<>>
  /\ PageLoaded
  /\ NoCall

\* one call of calculateBestOptions; it assigns to no element of board and
\* hands calculateOptionEV arrays it has built itself (map, filter)
BestOptionsStep(from, to) ==
  /\ pc = from
  /\ ret' = calculateBestOptions(board)
  /\ pc' = to
  /\ UNCHANGED <<total, optionValues, availableNumbers, board, cellIndex, cellLog>>
  /\ UNCHANGED uiVars
  /\ UNCHANGED stackVars

CallCalculateBestOptions == BestOptionsStep("ready", "done")

SpecLines == InitLines /\ [][CallCalculateBestOptions]_vars

-----------------------------------------------------------------------------
(* calculateCellEV *)

InitCells ==
  /\ total = 0
  /\ optionValues = NoLine
  /\ availableNumbers = <<>>
  /\ board \in CellBoards
  /\ cellIndex \in Positions
  /\ pc = "ready"
  /\ ret = 0
  /\ cellLog = <<>>
  /\ PageLoaded
  /\ NoCall

\* one call of calculateCellEV on board and cellIndex, taking pc from from to to
CellEVStep(from, to) ==
  /\ pc = from
  /\ ret' = calculateCellEV(board, cellIndex)
  /\ pc' = to
  /\ UNCHANGED <<total, optionValues, availableNumbers, board, cellIndex, cellLog>>
  /\ UNCHANGED uiVars
  /\ UNCHANGED stackVars

CallCalculateCellEV == CellEVStep("ready", "done")

SpecCells == InitCells /\ [][CallCalculateCellEV]_vars

-----------------------------------------------------------------------------
(* findBestCellsToReveal *)

InitFind ==
  /\ total = 0
  /\ optionValues = NoLine
  /\ availableNumbers = <<>>
  /\ board \in CellBoards
  /\ cellIndex = 0
  /\ pc = "ready"
  /\ ret = 0
  /\ cellLog = <<>>
  /\ PageLoaded
  /\ NoCall

\* The body of findBestCellsToReveal, its local constants bound one after
\* the other.  ret is the returned { bestCells, maxEV }; cellLog lists the
\* cells the loop logged ("Cell i EV: ...") and pushed to cellEVs.
FindBestCellsStep(from, to) ==
  /\ pc = from
  /\ \E filledCount \in {Len(takenNumbersOf(board))} :
       IF filledCount >= 4
       THEN /\ ret' = [bestCells |-> <<>>, maxEV |-> Num(0)]
            /\ cellLog' = <<>>
       ELSE \E cellEVs \in {cellEVsOf(board)} :
              /\ cellLog' = mapIndex(cellEVs)
              /\ IF Len(cellEVs) = 0
                 THEN ret' = [bestCells |-> <<>>, maxEV |-> Num(0)]
                 ELSE \E maxEV \in {MathMax(mapEv(cellEVs))} :
                        \E bestCells \in
                            {mapIndex(sortByPriority(filterTied(cellEVs, maxEV)))} :
                          ret' = [bestCells |-> bestCells, maxEV |-> maxEV]
  /\ pc' = to
  /\ UNCHANGED <<total, optionValues, availableNumbers, board, cellIndex>>
  /\ UNCHANGED uiVars
  /\ UNCHANGED stackVars

CallFindBestCellsToReveal == FindBestCellsStep("ready", "done")

SpecFind == InitFind /\ [][CallFindBestCellsToReveal]_vars

-----------------------------------------------------------------------------
(* Two calls in a row of calculateOptionEV, calculateBestOptions or         *)
(* findBestCellsToReveal on the same arrays; pc names the function and the  *)
(* number of calls made.                                                    *)

MaxTwicePos == 2       \* revealed cells of these boards lie at 0..MaxTwicePos

TwiceBoards ==
  UNION {{BoardOf(P, f) :
            f \in {g \in [P -> 1..Cardinality(P)] :
                     \A p, q \in P : p # q => g[p] # g[q]}} :
         P \in RevealSets(MaxTwicePos, MaxRevealed)}

InitTwice ==
  /\ total = 0
  /\ cellIndex = 0
  /\ ret = 0
  /\ cellLog = <<>>
  /\ PageLoaded
  /\ NoCall
  /\ \/ /\ pc = "optionEV"
        /\ optionValues \in [1..3 -> {Null} \cup 1..MaxSlotDigit]
        /\ availableNumbers \in {SortedSeq(S) : S \in SUBSET (1..MaxAvailDigit)}
        /\ board = EmptyBoard
     \/ /\ pc \in {"bestOptions", "bestCells"}
        /\ optionValues = NoLine
        /\ availableNumbers = <<>>
        /\ board \in TwiceBoards

FirstOptionEV == OptionEVStep("optionEV", "optionEV once")

SecondOptionEV == OptionEVStep("optionEV once", "optionEV twice")

FirstBestOptions == BestOptionsStep("bestOptions", "bestOptions once")

SecondBestOptions == BestOptionsStep("bestOptions once", "bestOptions twice")

FirstBestCells == FindBestCellsStep("bestCells", "bestCells once")

SecondBestCells == FindBestCellsStep("bestCells once", "bestCells twice")

NextTwice ==
  \/ FirstOptionEV
  \/ SecondOptionEV
  \/ FirstBestOptions
  \/ SecondBestOptions
  \/ FirstBestCells
  \/ SecondBestCells

SpecTwice == InitTwice /\ [][NextTwice]_vars

-----------------------------------------------------------------------------
(* The three analyzer functions on boards of any content: cells at         *)
(* positions 0..MaxEnginePos are null, a digit of 1..MaxEngineDigit or the  *)
(* out-of-range BadValue, duplicates included, or the board is valid and   *)
(* nearly full. None of the functions has a  *)
(* throw statement: each call returns its result.                           *)

MaxEnginePos == 1
MaxEngineDigit == 2

AnyBoards ==
  {BoardOf(0..MaxEnginePos, f) :
     f \in [0..MaxEnginePos -> {Null, BadValue} \cup 1..MaxEngineDigit]}

\* valid boards with every cell revealed (cell p holds 9 - p) but some of
\* the cells 0..MaxEnginePos
NearlyFullBoards ==
  {[p \in Positions |-> IF p \in P THEN Null ELSE 9 - p] : P \in SUBSET (0..MaxEnginePos)}

InitEngine ==
  /\ total = 0
  /\ optionValues = NoLine
  /\ availableNumbers = <<>>
  /\ board \in AnyBoards \cup NearlyFullBoards
  /\ \/ pc \in {"bestOptions", "bestCells"} /\ cellIndex = 0
     \/ pc = "cellEV" /\ cellIndex \in Positions
  /\ ret = 0
  /\ cellLog = <<>>
  /\ PageLoaded
  /\ NoCall

EngineBestOptions == BestOptionsStep("bestOptions", "bestOptions done")

EngineCellEV == CellEVStep("cellEV", "cellEV done")

EngineBestCells == FindBestCellsStep("bestCells", "bestCells done")

NextEngine ==
  \/ EngineBestOptions
  \/ EngineCellEV
  \/ EngineBestCells

SpecEngine == InitEngine /\ [][NextEngine]_vars

-----------------------------------------------------------------------------
(* The page: input events on the fields 0..MaxUIPos and clicks on the      *)
(* reset button. An input event runs the three input listeners in the       *)
(* order setupEventListeners registered them: toggleBackgroundImage,        *)
(* validateInput, checkNumberInputs. pc names what the last event did;      *)
(* board and ret are the locals board and result of handleCalculate when    *)
(* the last event called it. calculateBestOptions has no throw statement,   *)
(* so the catch branch of handleCalculate is never taken.                   *)

MaxUIPos == 3
MaxUIDigit == 4

\* the characters an edit can bring into a field
RawChars == {"a", " ", "0"} \cup {DigitChars[d + 1] : d \in 1..MaxUIDigit}

\* the text of a field after the user's edit, before any listener ran: the
\* field cleared, one character, or a character put after or before old
RawTextsOf(old, chars) ==
  {<<>>} \cup {<<c>> : c \in chars}
         \cup {old \o <<c>> : c \in chars}
         \cup {<<c>> \o old : c \in chars}

RawTexts(old) == RawTextsOf(old, RawChars)

UIPhases == {"loaded", "calculated", "duplicates", "waiting", "reset"}

InitUI ==
  /\ total = 0
  /\ optionValues = NoLine
  /\ availableNumbers = <<>>
  /\ board = EmptyBoard
  /\ cellIndex = 0
  /\ pc = "loaded"
  /\ ret = 0
  /\ cellLog = <<>>
  /\ PageLoaded
  /\ NoCall

displayResults(result) ==
  /\ bestOptionsDiv' = "Best Options: " \o formatBestOptions(result.bestOptions)
  /\ expectedValueText' = "Expected Value: " \o toFixed0(result.maxEV) \o " "
  /\ mgpImage' = "inline"
  /\ errorTextDiv' = ""

displayError(message) ==
  /\ bestOptionsDiv' = ""
  /\ expectedValueText' = ""
  /\ mgpImage' = "none"
  /\ errorTextDiv' = message

\* handleCalculate on the fields as they are now
handleCalculate(current) ==
  \E b \in {getBoardState(current)} :
    \E result \in {calculateBestOptions(b)} :
      /\ board' = b
      /\ ret' = result
      /\ displayResults(result)

\* variant: below minimumInputs the results and the error text are cleared
checkNumberInputsClears(current) ==
  \E filledValues \in {filledValuesOf(current)} :
    \E duplicates \in {findDuplicates(filledValues, 1, {}, <<>>)} :
      IF Len(duplicates) > 0
      THEN /\ displayError(duplicateMessage(duplicates))
           /\ pc' = "duplicates"
           /\ board' = EmptyBoard
           /\ ret' = 0
      ELSE IF Len(filledValues) >= minimumInputs
      THEN /\ handleCalculate(current)
           /\ pc' = "calculated"
      ELSE /\ displayError("")
           /\ pc' = "waiting"
           /\ board' = EmptyBoard
           /\ ret' = 0

\* checkNumberInputs on the fields as they are now; counter is the length
\* of filledValues
checkNumberInputs(current) ==
  \E filledValues \in {filledValuesOf(current)} :
    \E duplicates \in {findDuplicates(filledValues, 1, {}, <<>>)} :
      IF Len(duplicates) > 0
      THEN /\ displayError(duplicateMessage(duplicates))
           /\ pc' = "duplicates"
           /\ board' = EmptyBoard
           /\ ret' = 0
      ELSE IF Len(filledValues) >= minimumInputs
      THEN /\ handleCalculate(current)
           /\ pc' = "calculated"
      ELSE /\ pc' = "waiting"
           /\ board' = EmptyBoard
           /\ ret' = 0
           /\ UNCHANGED <<bestOptionsDiv, expectedValueText, mgpImage, errorTextDiv>>

\* an input event on field i whose text the user made raw
HandleInput(i, raw) ==
  /\ pc \in UIPhases
  /\ ~disabled[i]
  /\ filled' = [filled EXCEPT ![i] = (trim(raw) # <<>>)]
  /\ \E typed \in {[inputs EXCEPT ![i] = raw]} :
       \E cleaned \in {[inputs EXCEPT ![i] = validateInput(raw)]} :
         /\ inputs' = cleaned
         /\ disabled' = manageInputStates(cleaned, manageInputStates(typed, disabled))
         /\ checkNumberInputs(cleaned)
  /\ UNCHANGED <<total, optionValues, availableNumbers, cellIndex, cellLog>>
  /\ UNCHANGED stackVars

InputEvent ==
  \E i \in 0..MaxUIPos : \E raw \in RawTexts(inputs[i]) : HandleInput(i, raw)

\* a click on the reset button
handleReset ==
  /\ pc \in UIPhases
  /\ inputs' = [p \in Positions |-> <<>>]
  /\ filled' = [p \in Positions |-> FALSE]
  /\ disabled' = manageInputStates([p \in Positions |-> <<>>], [p \in Positions |-> FALSE])
  /\ bestOptionsDiv' = ""
  /\ expectedValueText' = ""
  /\ mgpImage' = "none"
  /\ errorTextDiv' = ""
  /\ pc' = "reset"
  /\ board' = EmptyBoard
  /\ ret' = 0
  /\ UNCHANGED <<total, optionValues, availableNumbers, cellIndex, cellLog>>
  /\ UNCHANGED stackVars

NextUI ==
  \/ InputEvent
  \/ handleReset

SpecUI == InitUI /\ [][NextUI]_vars

\* the page with more fields taking events than maxInputs and few digits:
\* fields 0..MaxFieldPos, digits 1..MaxFieldDigit
MaxFieldPos == 4
MaxFieldDigit == 1

FieldChars == {"a", " ", "0"} \cup {DigitChars[d + 1] : d \in 1..MaxFieldDigit}

InputEventAnyField ==
  \E i \in 0..MaxFieldPos : \E raw \in RawTextsOf(inputs[i], FieldChars) : HandleInput(i, raw)

NextFields ==
  \/ InputEventAnyField
  \/ handleReset

SpecFields == InitUI /\ [][NextFields]_vars

-----------------------------------------------------------------------------
(* Oracles of the properties: the payout table of the specification and    *)
(* sums over finite sets                                                   *)

PayoutTable ==
  <<10000, 36, 720, 360, 80, 252, 108, 72, 54, 180,
    72, 180, 119, 36, 306, 1080, 144, 1800, 3600>>

Payout(sum) == IF sum \in 6..24 THEN PayoutTable[sum - 5] ELSE 0

\* the sum of f[x] over x in S
RECURSIVE SumOver(_, _)
SumOver(S, f) ==
  IF S = {} THEN 0
  ELSE LET x == CHOOSE y \in S : TRUE IN f[x] + SumOver(S \ {x}, f)

\* n (n - 1) ... (n - k + 1)
RECURSIVE FallingFactorial(_, _)
FallingFactorial(n, k) == IF k = 0 THEN 1 ELSE n * FallingFactorial(n - 1, k - 1)

NullSlots(values) == {j \in 1..3 : values[j] = Null}

\* the ordered assignments of distinct entries of avail to the unrevealed
\* slots of values, as functions from slot to index in avail
Assignments(values, avail) ==
  {f \in [NullSlots(values) -> 1..Len(avail)] :
     \A i, j \in NullSlots(values) : i # j => f[i] # f[j]}

\* the sum of the three slots under assignment f
AssignedSum(values, avail, f) ==
  LET slot(j) == IF values[j] = Null THEN avail[f[j]] ELSE values[j]
  IN slot(1) + slot(2) + slot(3)

\* the uniform average of the payout over all assignments (at least one
\* unrevealed slot); the sum is taken group by group, an assignment being
\* in the group of the index it gives the first unrevealed slot
UniformAverage(values, avail) ==
  LET A == Assignments(values, avail)
      first == CHOOSE j \in NullSlots(values) : \A i \in NullSlots(values) : j <= i
      pay == [f \in A |-> Payout(AssignedSum(values, avail, f))]
      groupPay == [i \in 1..Len(avail) |-> SumOver({f \in A : f[first] = i}, pay)]
  IN Rat(SumOver(1..Len(avail), groupPay), Cardinality(A))

\* the sum of the revealed slots
FixedSum(values) ==
  LET fixed(j) == IF values[j] = Null THEN 0 ELSE values[j]
  IN fixed(1) + fixed(2) + fixed(3)

-----------------------------------------------------------------------------
(* Properties of gilValue and calculateOptionEV *)

\* C1: gilValue(total) is the tabled reward for every total in 6..24 and 0
\* for every other integer.
C1_PayoutMatchesTable ==
  pc = "done" =>
    /\ total \in 6..24 => ret = PayoutTable[total - 5]
    /\ total \notin 6..24 => ret = 0

C1_Witness == pc = "done" /\ total = 24 /\ ret = 3600

\* C2: with k in 1..3 unrevealed slots and n >= k distinct available digits,
\* calculateOptionEV is the uniform average of the payout over all
\* n (n - 1) ... (n - k + 1) ordered assignments of distinct digits; with
\* k = 1 it is the mean of the payout of fixedSum + d over the digits d.
C2_UniformAverage ==
  LET k == Cardinality(NullSlots(optionValues))
      n == Len(availableNumbers)
      meanOne == LET pay == [i \in 1..n |->
                                Payout(FixedSum(optionValues) + availableNumbers[i])]
                 IN Rat(SumOver(1..n, pay), n)
  IN (pc = "done" /\ k >= 1 /\ n >= k) =>
       /\ Cardinality(Assignments(optionValues, availableNumbers)) = FallingFactorial(n, k)
       /\ NumEq(ret, UniformAverage(optionValues, availableNumbers))
       /\ k = 1 => NumEq(ret, meanOne)

C2_Witness ==
  /\ pc = "done"
  /\ optionValues = <<Null, 1, Null>>
  /\ availableNumbers = <<2, 3, 5>>
  /\ NumEq(ret, <<11080, 3>>)

\* C3: with no unrevealed slot calculateOptionEV is the payout of the sum of
\* the three slots, whatever the available list holds.
C3_FullLinePayout ==
  (pc = "done" /\ NullSlots(optionValues) = {}) =>
    NumEq(ret, Num(Payout(optionValues[1] + optionValues[2] + optionValues[3])))

C3_Witness ==
  /\ pc = "done"
  /\ optionValues = <<1, 2, 3>>
  /\ availableNumbers = <<1, 2, 3, 4>>
  /\ NumEq(ret, Num(10000))

-----------------------------------------------------------------------------
(* Properties of the board analyzer *)

\* the board holding the nine cells of row-major list cells
Board9(cells) == [p \in Positions |-> cells[p + 1]]

Revealed(b) == {p \in Positions : b[p] # Null}

LineIndices == <<0, 1, 2, 3, 4, 5, 6, 7>>

\* line l is fully revealed on b and its cells sum to sum
FullLineWithSum(b, l, sum) ==
  /\ \A k \in 1..3 : b[options[l][k]] # Null
  /\ b[options[l][1]] + b[options[l][2]] + b[options[l][3]] = sum

\* C4: calculateBestOptions computes one EV per line, maxEV is the maximum
\* of the 8 values and bestOptions lists, in line-table order, exactly the
\* lines whose EV equals maxEV; the list is not empty.
C4_BestOptionsAreMaxLines ==
  pc = "done" =>
    \A evs \in {lineEVsOf(board)} :
      LET tied == SelectSeq(LineIndices, LAMBDA l : NumEq(evs[l + 1], ret.maxEV))
      IN /\ Len(evs) = 8
         /\ \A l \in 0..7 : NumEq(evs[l + 1], ret.maxEV) \/ NumLess(evs[l + 1], ret.maxEV)
         /\ \E l \in 0..7 : NumEq(evs[l + 1], ret.maxEV)
         /\ ret.bestOptions = [k \in 1..Len(tied) |-> options[tied[k]]]
         /\ ret.bestOptions # <<>>

C4_Witness ==
  /\ pc = "done"
  /\ board = Board9(<<Null, 1, Null, Null, Null, Null, Null, Null, Null>>)
  /\ NumEq(ret.maxEV, <<2115, 4>>)
  /\ ret.bestOptions = <<<<0, 1, 2>>, <<1, 4, 7>>>>

\* C5: on the board with all 9 cells unrevealed all 8 lines are best
\* options and every line has the EV maxEV.
C5_EmptyBoardAllLinesTie ==
  (pc = "done" /\ board = EmptyBoard) =>
    /\ ret.bestOptions = [k \in 1..8 |-> options[k - 1]]
    /\ \A evs \in {lineEVsOf(board)} : \A l \in 0..7 : NumEq(evs[l + 1], ret.maxEV)

C5_Witness ==
  /\ pc = "done"
  /\ board = EmptyBoard
  /\ Len(ret.bestOptions) = 8
  /\ NumEq(ret.maxEV, <<30269, 84>>)

\* C6: on a valid board with a fully revealed line of sum 6, maxEV is
\* exactly 10000 and that line is the only best option.
C6_RevealedSixWins ==
  pc = "done" =>
    \A l \in 0..7 :
      FullLineWithSum(board, l, 6) =>
        /\ NumEq(ret.maxEV, Num(10000))
        /\ ret.bestOptions = <<options[l]>>

C6_Witness ==
  /\ pc = "done"
  /\ board = Board9(<<1, 2, 3, 4, Null, Null, Null, Null, Null>>)
  /\ NumEq(ret.maxEV, Num(10000))
  /\ ret.bestOptions = <<<<0, 1, 2>>>>

\* C7: with 4 or more revealed cells findBestCellsToReveal returns an empty
\* bestCells list; with fewer it evaluates every unrevealed position, in
\* ascending order, and no other.
C7_EvaluatesUnrevealedBelowFour ==
  pc = "done" =>
    /\ Cardinality(Revealed(board)) >= 4 => ret.bestCells = <<>>
    /\ Cardinality(Revealed(board)) < 4 =>
         cellLog = SortedSeq(Positions \ Revealed(board))

C7_Witness ==
  /\ pc = "done"
  /\ board = Board9(<<1, 2, 3, 4, Null, Null, Null, Null, Null>>)
  /\ ret.bestCells = <<>>

C7_WitnessBelowFour ==
  /\ pc = "done"
  /\ board = Board9(<<1, 2, 3, Null, Null, Null, Null, Null, Null>>)
  /\ cellLog = <<3, 4, 5, 6, 7, 8>>

\* the gains of the nine positions, position p at index p + 1
GainsOf(b) ==
  <<calculateCellEV(b, 0), calculateCellEV(b, 1), calculateCellEV(b, 2),
    calculateCellEV(b, 3), calculateCellEV(b, 4), calculateCellEV(b, 5),
    calculateCellEV(b, 6), calculateCellEV(b, 7), calculateCellEV(b, 8)>>

\* |x - y| < 0.01, that is 100 |n| < d for x - y = n / d
Within001(x, y) ==
  LET diff == NumSub(x, y) IN Abs(diff[1]) <= (diff[2] - 1) \div 100

\* C8: with fewer than 4 revealed cells the positions of bestCells are
\* exactly the unrevealed positions whose gain is within 0.01 of the
\* greatest gain of an unrevealed position.
C8_BestCellsAreEpsilonTies ==
  (pc = "done" /\ Cardinality(Revealed(board)) < 4) =>
    \A gains \in {GainsOf(board)} :
      LET unrevealed == Positions \ Revealed(board)
          maxGain == CHOOSE g \in {gains[p + 1] : p \in unrevealed} :
                       \A q \in unrevealed : ~NumLess(g, gains[q + 1])
      IN /\ {ret.bestCells[k] : k \in 1..Len(ret.bestCells)}
              = {p \in unrevealed : Within001(gains[p + 1], maxGain)}
         /\ Len(ret.bestCells)
              = Cardinality({p \in unrevealed : Within001(gains[p + 1], maxGain)})

C8_Witness ==
  /\ pc = "done"
  /\ board = Board9(<<Null, Null, Null, BadValue, Null, Null, Null, Null, Null>>)
  /\ ret.bestCells = <<4, 2, 8>>

C8_WitnessValid ==
  /\ pc = "done"
  /\ board = Board9(<<Null, Null, Null, Null, 1, Null, Null, Null, Null>>)
  /\ ret.bestCells = <<0, 2, 6, 8>>

\* center 4, corners 3, edges 2
PositionRank(p) == IF p = 4 THEN 4 ELSE IF p \in {0, 2, 6, 8} THEN 3 ELSE 2

\* C9: bestCells is ordered by non-increasing position priority (center,
\* then corners, then edges) and, within one priority, by ascending index.
C9_BestCellsOrderedByPriority ==
  pc = "done" =>
    \A i, j \in 1..Len(ret.bestCells) :
      i < j =>
        \/ PositionRank(ret.bestCells[i]) > PositionRank(ret.bestCells[j])
        \/ /\ PositionRank(ret.bestCells[i]) = PositionRank(ret.bestCells[j])
           /\ ret.bestCells[i] < ret.bestCells[j]

C9_Witness ==
  /\ pc = "done"
  /\ board = Board9(<<Null, BadValue, Null, Null, Null, Null, Null, Null, Null>>)
  /\ ret.bestCells = <<4, 6, 8>>

\* the sum of the EVs of the lines that contain position p
RECURSIVE LineSumThrough(_, _, _)
LineSumThrough(evs, p, l) ==
  IF l > 7 THEN Num(0)
  ELSE LET rest == LineSumThrough(evs, p, l + 1)
       IN IF \E k \in 1..3 : options[l][k] = p
          THEN NumAdd(evs[l + 1], rest)
          ELSE rest

\* C10: for an unrevealed position p calculateCellEV is the sum of the EVs
\* of all lines that contain p minus calculateBestOptions(board).maxEV; for
\* a revealed position it is 0.
C10_CellEVIsLineSumMinusBaseline ==
  pc = "done" =>
    IF board[cellIndex] = Null
    THEN NumEq(ret, NumSub(LineSumThrough(lineEVsOf(board), cellIndex, 0),
                           calculateBestOptions(board).maxEV))
    ELSE NumEq(ret, Num(0))

C10_Witness ==
  /\ pc = "done"
  /\ board = Board9(<<1, 2, Null, Null, Null, Null, Null, Null, Null>>)
  /\ cellIndex = 6
  /\ NumEq(ret, <<-26911, 35>>)

C10_WitnessRevealed ==
  /\ pc = "done"
  /\ board = Board9(<<1, 2, Null, Null, Null, Null, Null, Null, Null>>)
  /\ cellIndex = 1
  /\ NumEq(ret, Num(0))

\* a board of distinct digits 1..9
ValidBoard(b) ==
  /\ \A p \in Revealed(b) : b[p] \in 1..9
  /\ \A p, q \in Revealed(b) : p # q => b[p] # b[q]

\* C11: on a valid board with fewer than 4 revealed cells bestCells is not
\* empty, also when every gain is negative.
C11_BestCellsNotEmpty ==
  (pc = "done" /\ ValidBoard(board) /\ Cardinality(Revealed(board)) < 4) =>
    ret.bestCells # <<>>

\* every gain is negative: row 1 already pays 10000
C11_Witness ==
  /\ pc = "done"
  /\ board = Board9(<<1, 2, 3, Null, Null, Null, Null, Null, Null>>)
  /\ NumEq(ret.maxEV, <<-546143, 60>>)
  /\ ret.bestCells = <<4>>

SameNumber(x, y) == (IsNaN(x) /\ IsNaN(y)) \/ NumEq(x, y)

\* the permutations of the three slots
SlotPermutations == {f \in [1..3 -> 1..3] : \A i, j \in 1..3 : i # j => f[i] # f[j]}

\* the available list has at least as many digits as the line has unrevealed slots
EnoughAvailable(values, avail) == Len(avail) >= Cardinality(NullSlots(values))

\* C13: calculateOptionEV returns the same value for every permutation of
\* the three slots of the line.
C13_SlotOrderIrrelevant ==
  (pc = "done" /\ EnoughAvailable(optionValues, availableNumbers)) =>
    \A f \in SlotPermutations :
      NumEq(calculateOptionEV(<<optionValues[f[1]], optionValues[f[2]], optionValues[f[3]]>>,
                              availableNumbers),
            ret)

C13_Witness ==
  /\ pc = "done"
  /\ optionValues = <<1, Null, 3>>
  /\ availableNumbers = <<2, 5>>
  /\ NumEq(ret, Num(5180))
  /\ NumEq(calculateOptionEV(<<Null, 3, 1>>, availableNumbers), Num(5180))

\* the set of the entries of a sequence
Range(s) == {s[i] : i \in 1..Len(s)}

\* the line values completed by assignment f
CompletedLine(values, avail, f) ==
  <<IF values[1] = Null THEN avail[f[1]] ELSE values[1],
    IF values[2] = Null THEN avail[f[2]] ELSE values[2],
    IF values[3] = Null THEN avail[f[3]] ELSE values[3]>>

\* C14: for every line and every list of distinct available digits,
\* calculateOptionEV returns the value it returns for the same digits in
\* ascending order (hence the same value for every ordering), and the
\* recursion completes the line once with every assignment of distinct
\* available digits to the unrevealed slots: no assignment is repeated and
\* none is omitted.
C14_OrderIrrelevantEachDigitOnce ==
  pc = "done" =>
    /\ SameNumber(ret, calculateOptionEV(optionValues, SortedSeq(Range(availableNumbers))))
    /\ LET tried == triedLines(optionValues, availableNumbers)
       IN /\ \A i, j \in 1..Len(tried) : i # j => tried[i] # tried[j]
          /\ Range(tried) = {CompletedLine(optionValues, availableNumbers, f) :
                               f \in Assignments(optionValues, availableNumbers)}

C14_Witness ==
  /\ pc = "done"
  /\ optionValues = <<Null, 1, Null>>
  /\ availableNumbers = <<4, 2, 3>>
  /\ NumEq(ret, calculateOptionEV(optionValues, <<2, 3, 4>>))
  /\ triedLines(optionValues, availableNumbers) =
       <<<<4, 1, 2>>, <<4, 1, 3>>, <<2, 1, 4>>, <<2, 1, 3>>, <<3, 1, 4>>, <<3, 1, 2>>>>

\* x >= 0
NonNegative(x) == ~IsNaN(x) /\ ~NumLess(x, Num(0))

\* the 8 line EVs of the board are >= 0
LineEVsNonNegative(b) == \A l \in 1..8 : NonNegative(lineEVsOf(b)[l])

\* C15 as stated: every EV result for a valid board is >= 0: the 8 line EVs,
\* calculateBestOptions().maxEV, the value of calculateCellEV and the maxEV
\* of findBestCellsToReveal.
C15_EveryResultNonNegative ==
  ValidBoard(board) =>
    /\ pc = "bestOptions done" => LineEVsNonNegative(board) /\ NonNegative(ret.maxEV)
    /\ pc = "cellEV done" => NonNegative(ret)
    /\ pc = "bestCells done" => NonNegative(ret.maxEV)

\* C15, amended: for a valid board the 8 line EVs and
\* calculateBestOptions().maxEV are >= 0; the value of calculateCellEV and
\* the maxEV of findBestCellsToReveal are gains over the baseline
\* calculateBestOptions().maxEV, which can be negative but are never below
\* minus the baseline.
C15_LineEVsNonNegativeGainsAboveMinusBaseline ==
  ValidBoard(board) =>
    /\ pc = "bestOptions done" => LineEVsNonNegative(board) /\ NonNegative(ret.maxEV)
    /\ pc = "cellEV done" =>
         NonNegative(NumAdd(ret, calculateBestOptions(board).maxEV))
    /\ pc = "bestCells done" =>
         NonNegative(NumAdd(ret.maxEV, calculateBestOptions(board).maxEV))

C15_Witness ==
  /\ pc = "cellEV done"
  /\ board = Board9(<<1, 2, Null, Null, Null, Null, Null, Null, Null>>)
  /\ cellIndex = 6
  /\ NumEq(ret, <<-26911, 35>>)
  /\ NumLess(ret, Num(0))
  /\ NonNegative(NumAdd(ret, calculateBestOptions(board).maxEV))

\* a 9-cell board with a revealed value outside 1..9 or a digit revealed twice
Malformed(b) == ~ValidBoard(b)

\* C16: calculateBestOptions and findBestCellsToReveal, called with a
\* malformed board (a duplicate revealed digit or a revealed value outside
\* 1..9), fail with an "invalid board" error and never return EVs: no call
\* on a malformed board reaches its return statement.
C16_MalformedBoardNeverReturnsEVs ==
  Malformed(board) => pc \notin {"bestOptions done", "bestCells done"}

\* the number of unrevealed cells
Unrevealed(b) == 9 - Cardinality(Revealed(b))

\* C17: for every 9-cell board of nulls and integers, duplicates allowed,
\* the available list has at least as many digits as the board has
\* unrevealed cells; on each of the 8 lines calculateOptionEV completes the
\* line at least once and its result is a number, not the NaN of a division
\* by zero, and so are the results of calculateBestOptions and
\* calculateCellEV.
C17_AvailableCoversUnrevealed ==
  /\ pc \in {"bestOptions done", "cellEV done"} =>
       Len(availableNumbersOf(board)) >= Unrevealed(board)
  /\ pc = "bestOptions done" =>
       /\ \A l \in 0..7 :
            /\ triedLines(lineValues(board, options[l]), availableNumbersOf(board)) # <<>>
            /\ ~IsNaN(lineEVsOf(board)[l + 1])
       /\ ~IsNaN(ret.maxEV)
  /\ pc = "cellEV done" => ~IsNaN(ret)

C17_Witness ==
  /\ pc = "bestOptions done"
  /\ board = Board9(<<1, 1, Null, Null, Null, Null, Null, Null, Null>>)
  /\ Len(availableNumbersOf(board)) = 8
  /\ Unrevealed(board) = 7
  /\ NumEq(ret.maxEV, Num(1431))

C17_WitnessNoSlack ==
  /\ pc = "cellEV done"
  /\ board = Board9(<<Null, 8, 7, 6, 5, 4, 3, 2, 1>>)
  /\ cellIndex = 0
  /\ availableNumbersOf(board) = <<9>>
  /\ Unrevealed(board) = 1
  /\ ~IsNaN(ret)

\* the number of lines of options that pass through position p
LinesThrough(p) == Cardinality({l \in 0..7 : \E k \in 1..3 : options[l][k] = p})

\* C18: for the cell calculateCellEV is called on, line index l is listed
\* (once) in cellLines[p] if and only if p is one of the three positions of
\* options[l]; an edge position lies on exactly 2 lines, a corner on 3, the
\* center on 4, and getPositionPriority(p) is the number of lines through p.
C18_GeometryConsistent ==
  pc = "done" =>
    LET p == cellIndex
        listed == cellLines[p]
    IN /\ \A l \in 0..7 : includes(listed, l) <=> \E k \in 1..3 : options[l][k] = p
       /\ \A i, j \in 1..Len(listed) : i # j => listed[i] # listed[j]
       /\ \A i \in 1..Len(listed) : listed[i] \in 0..7
       /\ Len(listed) = LinesThrough(p)
       /\ p \in {1, 3, 5, 7} => LinesThrough(p) = 2
       /\ p \in {0, 2, 6, 8} => LinesThrough(p) = 3
       /\ p = 4 => LinesThrough(p) = 4
       /\ getPositionPriority(p) = LinesThrough(p)

C18_Witness ==
  /\ pc = "done"
  /\ cellIndex = 8
  /\ board = EmptyBoard
  /\ cellLines[8] = <<2, 5, 6>>
  /\ getPositionPriority(8) = 3
  /\ LinesThrough(8) = 3

-----------------------------------------------------------------------------
(* Properties of the page *)

\* the fields that hold a text
FilledFields == {p \in Positions : inputs[p] # <<>>}

\* the digits that two fields hold
DuplicatedDigits ==
  {d \in 1..9 : \E p, q \in Positions :
                  p # q /\ inputs[p] = <<DigitChars[d + 1]>> /\ inputs[q] = inputs[p]}

\* C19: every board handleCalculate passes to calculateBestOptions has 9
\* cells, each null or an integer of 1..9, no digit twice and at least
\* minimumInputs cells filled; when two fields hold the same digit the last
\* event displayed the duplicate error and made no calculation.
C19_OnlyValidBoardsCalculated ==
  /\ pc = "calculated" =>
       /\ DOMAIN board = 0..8
       /\ \A p \in 0..8 : board[p] = Null \/ board[p] \in 1..9
       /\ \A p, q \in 0..8 : (p # q /\ board[p] # Null) => board[p] # board[q]
       /\ Cardinality({p \in 0..8 : board[p] # Null}) >= minimumInputs
  /\ DuplicatedDigits # {} =>
       /\ pc = "duplicates"
       /\ \E shown \in InjectiveSeqs(DuplicatedDigits) :
            /\ Len(shown) = Cardinality(DuplicatedDigits)
            /\ errorTextDiv = duplicateMessage(shown)
       /\ bestOptionsDiv = ""
       /\ expectedValueText = ""

C19_Witness ==
  /\ pc = "calculated"
  /\ board = Board9(<<4, 2, 1, 3, Null, Null, Null, Null, Null>>)
  /\ disabled = [p \in Positions |-> p > 3]

C19_WitnessDuplicate ==
  /\ pc = "duplicates"
  /\ inputs[0] = <<"2">>
  /\ inputs[1] = <<"1">>
  /\ inputs[2] = <<"2">>
  /\ inputs[3] = <<"1">>
  /\ errorTextDiv = "Duplicate numbers: 2, 1<br>Please remove duplicates."
  /\ board = EmptyBoard

\* the digit a field text shows
FieldDigit(text) == CHOOSE d \in 1..9 : text = <<DigitChars[d + 1]>>

\* the board the fields show
ShownBoard == [p \in Positions |-> IF inputs[p] = <<>> THEN Null ELSE FieldDigit(inputs[p])]

\* the names, in line order, of the lines whose EV no line exceeds
RECURSIVE BestLineNames(_, _)
BestLineNames(evs, l) ==
  IF l > 7 THEN <<>>
  ELSE (IF \A k \in 1..8 : ~NumLess(evs[l + 1], evs[k])
        THEN <<optionNames[l + 1]>> ELSE <<>>) \o BestLineNames(evs, l + 1)

\* the names separated by ", "
RECURSIVE CommaSeparated(_)
CommaSeparated(names) ==
  IF names = <<>> THEN ""
  ELSE IF Len(names) = 1 THEN names[1]
  ELSE names[1] \o ", " \o CommaSeparated(Tail(names))

\* the integer nearest to x >= 0 (the larger one on a tie)
Nearest(x) ==
  CHOOSE n \in 0..10000 : (2 * n - 1) * x[2] <= 2 * x[1] /\ 2 * x[1] < (2 * n + 1) * x[2]

\* C20: after every input event that leaves 4 or more fields filled with
\* pairwise distinct digits, the page shows the names of the lines of
\* highest EV and the rounded expected value that calculateBestOptions
\* gives for the board the fields show, and the error text is empty.
C20_ResultsShownForCurrentBoard ==
  (/\ pc \in {"calculated", "duplicates", "waiting"}
   /\ Cardinality(FilledFields) >= 4
   /\ \A p \in FilledFields : \E d \in 1..9 : inputs[p] = <<DigitChars[d + 1]>>
   /\ DuplicatedDigits = {}) =>
    /\ bestOptionsDiv = "Best Options: " \o CommaSeparated(BestLineNames(lineEVsOf(ShownBoard), 0))
    /\ expectedValueText =
         "Expected Value: " \o ToString(Nearest(calculateBestOptions(ShownBoard).maxEV)) \o " "
    /\ errorTextDiv = ""

C20_Witness ==
  /\ pc = "calculated"
  /\ inputs = [p \in Positions |-> IF p > 3 THEN <<>> ELSE <<<<"2">>, <<"3">>, <<"4">>, <<"1">>>>[p + 1]]
  /\ NumEq(ret.maxEV, <<1723, 2>>)
  /\ bestOptionsDiv = "Best Options: Row 3"
  /\ expectedValueText = "Expected Value: 862 "
  /\ errorTextDiv = ""

\* C21: while fewer than 4 numbers are entered, each input event calls
\* findBestCellsToReveal on the board the fields show (the call logs an EV
\* for every unrevealed cell and returns the cells to highlight).
C21_SuggestionsComputedBelowFour ==
  (pc = "waiting" /\ Cardinality(FilledFields) < 4) =>
    /\ cellLog = SortedSeq(Positions \ FilledFields)
    /\ ret # 0

\* C22: calculateOptionEV terminates for every line with k <= 3 unrevealed
\* slots and every list of n >= k available digits; every call in progress
\* was made with the first unrevealed slot of its caller filled by the
\* caller's current digit and with the caller's list less that one element;
\* gilValue is only evaluated at depth k and, when the outermost call has
\* returned, has been evaluated n (n - 1) ... (n - k + 1) times.
C22_CallsWellFormed ==
  LET k == Cardinality(NullSlots(optionValues))
      n == Len(availableNumbers)
  IN n >= k =>
       /\ Len(stack) <= k + 1
       /\ \A d \in 2..Len(stack) :
            LET caller == stack[d - 1]
                callee == stack[d]
                first == CHOOSE j \in NullSlots(caller.optionValues) :
                           \A m \in NullSlots(caller.optionValues) : j <= m
            IN /\ Len(callee.availableNumbers) = Len(caller.availableNumbers) - 1
               /\ callee.optionValues[first] = caller.availableNumbers[caller.i]
               /\ \A j \in 1..3 : j # first => callee.optionValues[j] = caller.optionValues[j]
               /\ ~includes(callee.availableNumbers, callee.optionValues[first])
       /\ (pc = "run" /\ nullCountOf(stack[Len(stack)].optionValues) = 0) =>
            Len(stack) = k + 1
       /\ gilCalls <= FallingFactorial(n, k)
       /\ pc = "done" =>
            /\ gilCalls = FallingFactorial(n, k)
            /\ NumEq(ret, calculateOptionEV(optionValues, availableNumbers))

C22_TerminatesDepthAndCount ==
  /\ []C22_CallsWellFormed
  /\ (Len(availableNumbers) >= Cardinality(NullSlots(optionValues))) => <>(pc = "done")

C22_Witness ==
  /\ pc = "done"
  /\ optionValues = <<Null, Null, Null>>
  /\ availableNumbers = <<1, 2, 3, 4>>
  /\ gilCalls = 24
  /\ stack = <<>>

C22_WitnessDepth ==
  /\ pc = "run"
  /\ optionValues = <<Null, 1, Null>>
  /\ availableNumbers = <<2, 3, 4>>
  /\ Len(stack) = 3
  /\ stack[3].optionValues = <<3, 1, 4>>
  /\ stack[3].availableNumbers = <<2>>
  /\ gilCalls = 3

\* C23: after every completed input or reset event a field is disabled if
\* and only if it is empty and at least maxInputs fields are filled, and no
\* more than 4 fields are filled.
C23_DisabledIffEmptyAtMax ==
  /\ \A p \in Positions :
       disabled[p] <=> (inputs[p] = <<>> /\ Cardinality(FilledFields) >= maxInputs)
  /\ Cardinality(FilledFields) <= 4

C23_Witness ==
  /\ pc = "duplicates"
  /\ FilledFields = {0, 1, 3, 4}
  /\ disabled = [p \in Positions |-> p \in {2, 5, 6, 7, 8}]
  /\ filled[2]

\* x - y > 0.01, that is n > d / 100 for x - y = n / d with d > 0
ExceedsBy001(x, y) ==
  LET diff == NumSub(x, y) IN diff[2] > 0 /\ 100 * diff[1] > diff[2]

InputEventDone == pc' \in {"calculated", "duplicates", "waiting"}

\* C25: an input event that leaves fewer than 4 fields filled and no
\* duplicate among them leaves the displayed best options, the displayed
\* expected value and the error text as they were before the event.
C25_DisplayKeptBelowMinimum ==
  [][(/\ InputEventDone
      /\ Cardinality(FilledFields') < 4
      /\ \A p, q \in FilledFields' : p # q => inputs'[p] # inputs'[q])
     => /\ pc' = "waiting"
        /\ bestOptionsDiv' = bestOptionsDiv
        /\ expectedValueText' = expectedValueText
        /\ errorTextDiv' = errorTextDiv]_vars

\* field 3 was cleared after "2", "3", "4", "1" were calculated: the result
\* of the earlier board is still shown
C25_Witness ==
  /\ pc = "waiting"
  /\ inputs = [p \in Positions |-> IF p > 2 THEN <<>> ELSE <<<<"2">>, <<"3">>, <<"4">>>>[p + 1]]
  /\ bestOptionsDiv = "Best Options: Row 3"
  /\ expectedValueText = "Expected Value: 862 "
  /\ errorTextDiv = ""

\* a duplicate was removed leaving 3 fields: the error text is still shown
C25_WitnessStaleError ==
  /\ pc = "waiting"
  /\ Cardinality(FilledFields) = 3
  /\ DuplicatedDigits = {}
  /\ errorTextDiv = "Duplicate numbers: 2<br>Please remove duplicates."
  /\ bestOptionsDiv = ""

====
